---- MODULE Spec2Model ----
(***************************************************************************)
(* A model of the Neon Breacher game engine (GameEngine) and of the two    *)
(* React callbacks it reports to.                                          *)
(*                                                                         *)
(* Numbers.  The engine computes in JavaScript doubles.  The model keeps   *)
(* every length and velocity as an integer number of 1/PX pixels; PX = 90  *)
(* makes every quantity of the simulation exact: halves (the centred       *)
(* player and grid), fifths (enemySpeed grows by 0.2) and ninths (the      *)
(* enemy bullet speed 7/1.5 times 1/3, 2/3 or 1).  Only the particle decay *)
(* (factors 0.95 and 0.96) is rounded, toward zero.  Times are in ms.      *)
(***************************************************************************)
EXTENDS Integers, Sequences, FiniteSets, TLC

VARIABLES
    state,            \* GameState
    width, height,    \* surface size, in 1/PX pixels
    player,           \* [x, y, cooldown]
    enemies,          \* sequence of [x, y, active, row, col]
    bullets,          \* sequence of [x, y, dy, active, isPlayerBullet]
    particles,        \* sequence of [x, y, width, dx, dy, life, active, age]
    score,
    keys,             \* the key codes whose entry in this.keys is true
    enemyDirection, enemySpeed,
    difficulty,
    countdownValue, countdownTimer,
    uiScore,          \* the React score state, written by onScoreUpdate
    mid,              \* the engine before and after the collision step of the
                      \* last operation, when that step ran
    op,               \* the operation that ran last
    log,              \* the calls that operation made on the state callback, the
                      \* score callback and the sound manager, each in order
    elapsed,          \* ms handed to update() while in COUNTDOWN, this session
    ticks,            \* PLAYING updates of this session
    lastShot,         \* the one of them that last spawned a player bullet,
                      \* 0 when none has
    pending,          \* frame callbacks requested and not yet run
    listeners,        \* the engine's listeners registered on the window
    twin,             \* a second engine given the same calls and keys, which
                      \* SpecRate runs at twice the frame rate
    used              \* how much of each exploration budget is spent

vars == <<state, width, height, player, enemies, bullets, particles, score,
          keys, enemyDirection, enemySpeed, difficulty, countdownValue,
          countdownTimer, uiScore, mid, op, log, elapsed, ticks, lastShot,
          pending,
          listeners, twin, used>>

engine == <<state, width, height, player, enemies, bullets, particles, score,
            keys, enemyDirection, enemySpeed, difficulty, countdownValue,
            countdownTimer>>

----------------------------------------------------------------------------
(* Units and program constants *)

PX == 9 * 10

PLAYER_SPEED == 5
BULLET_SPEED == 7
ENEMY_SPEED_BASE == 1
ENEMY_DROP == 20
PARTICLE_LIFE == 45

rows == 4
cols == 8
padding == 20
enemyWidth == 30
enemyHeight == 20
playerWidth == 40
playerHeight == 30
playerBottomGap == 60
bulletWidth == 3
bulletHeight == 10
shotCooldown == 15
gridTop == 60
killScore == 100
killBurst == 25
playerBurst == 40
countdownStart == 3
countdownPeriod == 1000

GameState == {"START", "COUNTDOWN", "PLAYING", "GAME_OVER", "VICTORY"}
Difficulty == {"EASY", "MEDIUM", "HARD"}

----------------------------------------------------------------------------
(* Bounds of the exploration *)

MaxTicks == 6         \* PLAYING updates explored in one session
MaxKeyEvents == 2     \* keydown / keyup events
MaxEnemyShots == 1    \* enemy bullets fired
MaxStarts == 2        \* start() calls
MaxResizes == 1       \* resize() calls
MaxResets == 1        \* resetToMenu() calls
MaxEvents == 3       \* calls and events of all these kinds together
MaxStale == 2         \* update() calls explored past a particle's life

KeyCodes == {"ArrowRight", "KeyA", "Space"}
Surfaces == {<<366, 265>>, <<46, 265>>}
Resized == Surfaces \cup {<<190, 245>>}
DtSet == {600, 1000}
Tiers == {"HARD"}
Shooters == {29}
Seeds == {0, 1}

----------------------------------------------------------------------------
(* Arithmetic helpers *)

Max(a, b) == IF a >= b THEN a ELSE b
Min(a, b) == IF a <= b THEN a ELSE b

\* a * num / den on the 1/PX grid, rounded toward zero
Scale(a, num, den) ==
    IF a >= 0 THEN (a * num) \div den ELSE -(((-a) * num) \div den)

Abs(a) == IF a >= 0 THEN a ELSE -a

NoCalls == [state |-> <<>>, score |-> <<>>, sound |-> <<>>, draw |-> <<>>]

\* the collision step did not run
NoMid == [ran |-> FALSE, pre |-> <<>>, post |-> <<>>]

\* what a claim about the collision step reads of the engine
Snap(g) ==
    [state |-> g.state, player |-> g.player, enemies |-> g.enemies,
     bullets |-> g.bullets, particles |-> g.particles, score |-> g.score,
     log |-> g.log]

\* how many entries of a sequence equal v
Count(seq, v) == Cardinality({i \in 1..Len(seq) : seq[i] = v})

\* the indices of a sequence of entities whose active flag is set
Active(seq) == {i \in 1..Len(seq) : seq[i].active}

----------------------------------------------------------------------------
(* Pure parts of the engine *)

getDifficultyMultipliersNoMedium(d) ==
    CASE d = "EASY"   -> [speed |-> <<1, 3>>, freq |-> <<1, 3>>]
      [] OTHER        -> [speed |-> <<1, 1>>, freq |-> <<1, 1>>]

getDifficultyMultipliers(d) ==
    CASE d = "EASY"   -> [speed |-> <<1, 3>>, freq |-> <<1, 3>>]
      [] d = "MEDIUM" -> [speed |-> <<2, 3>>, freq |-> <<2, 3>>]
      [] OTHER        -> [speed |-> <<1, 1>>, freq |-> <<1, 1>>]

\* the grid resetEntities builds on a surface w wide, row by row
Grid(w) ==
    LET startX == (w - cols * (enemyWidth + padding) * PX) \div 2
    IN  [i \in 1..(rows * cols) |->
            LET r == (i - 1) \div cols
                c == (i - 1) % cols
            IN  [x |-> startX + c * (enemyWidth + padding) * PX,
                 y |-> (gridTop + r * (enemyHeight + padding)) * PX,
                 active |-> TRUE, row |-> r, col |-> c]]

\* the axis-aligned overlap test of the collision step
Overlap(ax, ay, aw, ah, bx, by, bw, bh) ==
    /\ ax < bx + bw
    /\ ax + aw > bx
    /\ ay < by + bh
    /\ ay + ah > by

\* What Math.random() yields for one particle: a direction (cosine and sine
\* in thousandths), a speed in [1, 5) and a radius in [2, 7).  Particle i of a
\* burst drawn with seed s takes entry (s + i) mod 4.
Draws ==
    << [cos |-> 1000,  sin |-> 0,     speed |-> 1 * PX,         radius |-> 2 * PX],
       [cos |-> 0,     sin |-> 1000,  speed |-> (49 * PX) \div 10, radius |-> (69 * PX) \div 10],
       [cos |-> -707,  sin |-> 707,   speed |-> 3 * PX,         radius |-> 4 * PX],
       [cos |-> 0,     sin |-> -1000, speed |-> 2 * PX,         radius |-> 5 * PX] >>

Draw(seed, i) == Draws[((seed + i) % Len(Draws)) + 1]

\* spawnParticles: the particles appended for a burst of count at (x, y)
spawnParticles(x, y, count, seed) ==
    [i \in 1..count |->
        LET d == Draw(seed, i)
        IN  [x |-> x, y |-> y,
             width |-> d.radius,
             dx |-> Scale(d.cos, d.speed, 1000),
             dy |-> Scale(d.sin, d.speed, 1000),
             life |-> PARTICLE_LIFE,
             active |-> TRUE,
             age |-> 0]]

----------------------------------------------------------------------------
(* update(dt), step by step.  g is the engine's state as a record, with the *)
(* calls made so far in g.log; k is the set of held keys.                   *)

Left(k) == "ArrowLeft" \in k \/ "KeyA" \in k
Right(k) == "ArrowRight" \in k \/ "KeyD" \in k
Fire(k) == "Space" \in k \/ "ArrowUp" \in k \/ "KeyW" \in k

StateCall(g, s) == [g.log EXCEPT !.state = Append(@, s)]
ScoreCall(l, n) == [l EXCEPT !.score = Append(@, n)]
SoundCall(l, c) == [l EXCEPT !.sound = Append(@, c)]

\* the COUNTDOWN branch
countdownStep(g, dt) ==
    LET timer == g.countdownTimer + dt
    IN  IF timer >= countdownPeriod
        THEN LET value == g.countdownValue - 1
             IN  IF value <= 0
                 THEN [g EXCEPT !.countdownValue = value, !.countdownTimer = 0,
                                !.state = "PLAYING",
                                !.log = StateCall(g, "PLAYING")]
                 ELSE [g EXCEPT !.countdownValue = value, !.countdownTimer = 0]
        ELSE [g EXCEPT !.countdownTimer = timer]

\* player movement and clamp
clampPlayerNoFloor(x, w) == Min(w - playerWidth * PX, x)

clampPlayer(x, w) == Max(0, Min(w - playerWidth * PX, x))

movePlayer(g, k) ==
    LET x1 == IF Left(k) THEN g.player.x - PLAYER_SPEED * PX ELSE g.player.x
        x2 == IF Right(k) THEN x1 + PLAYER_SPEED * PX ELSE x1
    IN  [g EXCEPT !.player.x = clampPlayer(x2, g.width)]

\* player shooting
playerShootShortCooldown(g, k) ==
    LET cd == IF g.player.cooldown > 0 THEN g.player.cooldown - 1
                                       ELSE g.player.cooldown
    IN  IF Fire(k) /\ cd <= 0
        THEN [g EXCEPT
                !.bullets = Append(@, [x |-> g.player.x + (playerWidth * PX) \div 2,
                                       y |-> g.player.y,
                                       dy |-> -(BULLET_SPEED * PX),
                                       active |-> TRUE,
                                       isPlayerBullet |-> TRUE]),
                !.log = SoundCall(@, "playShoot"),
                !.player.cooldown = shotCooldown - 1]
        ELSE [g EXCEPT !.player.cooldown = cd]

playerShoot(g, k) ==
    LET cd == IF g.player.cooldown > 0 THEN g.player.cooldown - 1
                                       ELSE g.player.cooldown
    IN  IF Fire(k) /\ cd <= 0
        THEN [g EXCEPT
                !.bullets = Append(@, [x |-> g.player.x + (playerWidth * PX) \div 2,
                                       y |-> g.player.y,
                                       dy |-> -(BULLET_SPEED * PX),
                                       active |-> TRUE,
                                       isPlayerBullet |-> TRUE]),
                !.log = SoundCall(@, "playShoot"),
                !.player.cooldown = shotCooldown]
        ELSE [g EXCEPT !.player.cooldown = cd]

\* bullets advance and leave the surface
moveBullets(g) ==
    [g EXCEPT !.bullets =
        [i \in 1..Len(@) |->
            LET y == @[i].y + @[i].dy
            IN  [@[i] EXCEPT !.y = y,
                             !.active = IF y < 0 \/ y > g.height THEN FALSE ELSE @]]]

\* the victory check
victory(g) ==
    [g EXCEPT !.state = "VICTORY", !.log = StateCall(g, "VICTORY")]

\* the body of livingEnemies.forEach for enemy i; fires says whether
\* Math.random() fell under the firing probability
enemyStepTopEdge(g, i, fires, hitWall) ==
    LET x == g.enemies[i].x + g.enemySpeed * g.enemyDirection
        e == [g.enemies[i] EXCEPT !.x = x]
        wall == \/ (x <= 0 /\ g.enemyDirection = -1)
                \/ (x + enemyWidth * PX >= g.width /\ g.enemyDirection = 1)
        g1 == [g EXCEPT !.enemies[i] = e]
        g2 == IF e.y >= g.player.y
              THEN [g1 EXCEPT !.state = "GAME_OVER",
                              !.log = SoundCall(StateCall(g1, "GAME_OVER"),
                                                "playExplosion")]
              ELSE g1
        m == getDifficultyMultipliers(g.difficulty)
        g3 == IF fires
              THEN [g2 EXCEPT !.bullets = Append(@,
                      [x |-> e.x + (enemyWidth * PX) \div 2,
                       y |-> e.y + enemyHeight * PX,
                       dy |-> (BULLET_SPEED * PX * 2 * m.speed[1]) \div (3 * m.speed[2]),
                       active |-> TRUE,
                       isPlayerBullet |-> FALSE])]
              ELSE g2
    IN  [g |-> g3, hitWall |-> hitWall \/ wall]

enemyStep(g, i, fires, hitWall) ==
    LET x == g.enemies[i].x + g.enemySpeed * g.enemyDirection
        e == [g.enemies[i] EXCEPT !.x = x]
        wall == \/ (x <= 0 /\ g.enemyDirection = -1)
                \/ (x + enemyWidth * PX >= g.width /\ g.enemyDirection = 1)
        g1 == [g EXCEPT !.enemies[i] = e]
        g2 == IF e.y + enemyHeight * PX >= g.player.y
              THEN [g1 EXCEPT !.state = "GAME_OVER",
                              !.log = SoundCall(StateCall(g1, "GAME_OVER"),
                                                "playExplosion")]
              ELSE g1
        m == getDifficultyMultipliers(g.difficulty)
        g3 == IF fires
              THEN [g2 EXCEPT !.bullets = Append(@,
                      [x |-> e.x + (enemyWidth * PX) \div 2,
                       y |-> e.y + enemyHeight * PX,
                       dy |-> (BULLET_SPEED * PX * 2 * m.speed[1]) \div (3 * m.speed[2]),
                       active |-> TRUE,
                       isPlayerBullet |-> FALSE])]
              ELSE g2
    IN  [g |-> g3, hitWall |-> hitWall \/ wall]

RECURSIVE enemyLoop(_, _, _, _, _)
enemyLoop(g, living, shooters, i, hitWall) ==
    IF i > Len(g.enemies) THEN [g |-> g, hitWall |-> hitWall]
    ELSE IF i \in living
         THEN LET r == enemyStep(g, i, i \in shooters, hitWall)
              IN  enemyLoop(r.g, living, shooters, i + 1, r.hitWall)
         ELSE enemyLoop(g, living, shooters, i + 1, hitWall)

\* the formation turns, drops and speeds up
wallBounceTurnLeft(g, living) ==
    [g EXCEPT !.enemyDirection = -1,
              !.enemies = [i \in 1..Len(@) |->
                              IF i \in living
                              THEN [@[i] EXCEPT !.y = @ + ENEMY_DROP * PX]
                              ELSE @[i]],
              !.enemySpeed = @ + PX \div 5]

wallBounce(g, living) ==
    [g EXCEPT !.enemyDirection = -@,
              !.enemies = [i \in 1..Len(@) |->
                              IF i \in living
                              THEN [@[i] EXCEPT !.y = @ + ENEMY_DROP * PX]
                              ELSE @[i]],
              !.enemySpeed = @ + PX \div 5]

\* a player bullet bi meets an active enemy ei
killEnemyKeepBullet(g, bi, ei, seed) ==
    LET e == g.enemies[ei]
    IN  [g EXCEPT !.enemies[ei].active = FALSE,
                  !.particles = @ \o spawnParticles(e.x + (enemyWidth * PX) \div 2,
                                                    e.y + (enemyHeight * PX) \div 2,
                                                    killBurst, seed),
                  !.score = @ + killScore,
                  !.log = ScoreCall(SoundCall(@, "playExplosion"),
                                    g.score + killScore)]

killEnemyNoPoints(g, bi, ei, seed) ==
    LET e == g.enemies[ei]
    IN  [g EXCEPT !.enemies[ei].active = FALSE,
                  !.bullets[bi].active = FALSE,
                  !.particles = @ \o spawnParticles(e.x + (enemyWidth * PX) \div 2,
                                                    e.y + (enemyHeight * PX) \div 2,
                                                    killBurst, seed),
                  !.log = ScoreCall(SoundCall(@, "playExplosion"), g.score)]

killEnemy(g, bi, ei, seed) ==
    LET e == g.enemies[ei]
    IN  [g EXCEPT !.enemies[ei].active = FALSE,
                  !.bullets[bi].active = FALSE,
                  !.particles = @ \o spawnParticles(e.x + (enemyWidth * PX) \div 2,
                                                    e.y + (enemyHeight * PX) \div 2,
                                                    killBurst, seed),
                  !.score = @ + killScore,
                  !.log = ScoreCall(SoundCall(@, "playExplosion"),
                                    g.score + killScore)]

\* this.enemies.forEach of the collision step, for player bullet bi
RECURSIVE bulletVsEnemies(_, _, _, _)
bulletVsEnemies(g, bi, ei, seed) ==
    IF ei > Len(g.enemies) THEN g
    ELSE LET e == g.enemies[ei]
             b == g.bullets[bi]
         IN  IF e.active /\ Overlap(b.x, b.y, bulletWidth * PX, bulletHeight * PX,
                                    e.x, e.y, enemyWidth * PX, enemyHeight * PX)
             THEN bulletVsEnemies(killEnemy(g, bi, ei, seed), bi, ei + 1, seed)
             ELSE bulletVsEnemies(g, bi, ei + 1, seed)

\* an enemy bullet bi against the player
bulletVsPlayerSmallBurst(g, bi, seed) ==
    LET b == g.bullets[bi]
    IN  IF Overlap(b.x, b.y, bulletWidth * PX, bulletHeight * PX,
                   g.player.x, g.player.y, playerWidth * PX, playerHeight * PX)
        THEN [g EXCEPT !.bullets[bi].active = FALSE,
                       !.particles = @ \o spawnParticles(
                                         g.player.x + (playerWidth * PX) \div 2,
                                         g.player.y + (playerHeight * PX) \div 2,
                                         killBurst, seed),
                       !.state = "GAME_OVER",
                       !.log = SoundCall(StateCall(g, "GAME_OVER"), "playExplosion")]
        ELSE g

bulletVsPlayer(g, bi, seed) ==
    LET b == g.bullets[bi]
    IN  IF Overlap(b.x, b.y, bulletWidth * PX, bulletHeight * PX,
                   g.player.x, g.player.y, playerWidth * PX, playerHeight * PX)
        THEN [g EXCEPT !.bullets[bi].active = FALSE,
                       !.particles = @ \o spawnParticles(
                                         g.player.x + (playerWidth * PX) \div 2,
                                         g.player.y + (playerHeight * PX) \div 2,
                                         playerBurst, seed),
                       !.state = "GAME_OVER",
                       !.log = SoundCall(StateCall(g, "GAME_OVER"), "playExplosion")]
        ELSE g

\* this.bullets.forEach of the collision step
RECURSIVE collisions(_, _, _)
collisions(g, bi, seed) ==
    IF bi > Len(g.bullets) THEN g
    ELSE IF ~g.bullets[bi].active THEN collisions(g, bi + 1, seed)
    ELSE IF g.bullets[bi].isPlayerBullet
         THEN collisions(bulletVsEnemies(g, bi, 1, seed), bi + 1, seed)
         ELSE collisions(bulletVsPlayer(g, bi, seed), bi + 1, seed)

\* one particle's decay
decay(p) ==
    LET w == Scale(p.width, 96, 100)
    IN  [p EXCEPT !.x = @ + p.dx, !.y = @ + p.dy,
                  !.life = @ - 1,
                  !.dx = Scale(@, 95, 100), !.dy = Scale(@, 95, 100),
                  !.width = w,
                  !.active = IF p.life - 1 <= 0 \/ 10 * w < 2 * PX THEN FALSE ELSE @]

updateParticles(g) ==
    [g EXCEPT !.particles = [i \in 1..Len(@) |-> decay(@[i])]]

IsActive(e) == e.active

\* the two filters that end update()
removeInactiveAndEnemies(g) ==
    [g EXCEPT !.bullets = SelectSeq(@, IsActive),
              !.particles = SelectSeq(@, IsActive),
              !.enemies = SelectSeq(@, IsActive)]

removeInactiveParticlesOnly(g) ==
    [g EXCEPT !.particles = SelectSeq(@, IsActive)]

removeInactive(g) ==
    [g EXCEPT !.bullets = SelectSeq(@, IsActive),
              !.particles = SelectSeq(@, IsActive)]

\* the PLAYING branch from the enemy logic on
enemyLogicNoReturn(g, shooters, seed) ==
    LET living == Active(g.enemies)
        g0 == IF living = {} THEN victory(g) ELSE g
        r == enemyLoop(g0, living, shooters, 1, FALSE)
        g1 == IF r.hitWall THEN wallBounce(r.g, living) ELSE r.g
        g2 == collisions(g1, 1, seed)
    IN  [removeInactive(updateParticles(g2)) EXCEPT
            !.mid = [ran |-> TRUE, pre |-> Snap(g1), post |-> Snap(g2)]]

enemyLogic(g, shooters, seed) ==
    LET living == Active(g.enemies)
    IN  IF living = {} THEN victory(g)
        ELSE LET r == enemyLoop(g, living, shooters, 1, FALSE)
                 g1 == IF r.hitWall THEN wallBounce(r.g, living) ELSE r.g
                 g2 == collisions(g1, 1, seed)
             IN  [removeInactive(updateParticles(g2)) EXCEPT
                     !.mid = [ran |-> TRUE, pre |-> Snap(g1), post |-> Snap(g2)]]

\* update(dt): shooters are the enemies whose Math.random() fell under the
\* firing probability, seed selects the particle draws
updateCountdownFallsThrough(g, k, dt, shooters, seed) ==
    LET g1 == IF g.state = "COUNTDOWN" THEN countdownStep(g, dt) ELSE g
    IN  IF g1.state # "PLAYING" THEN g1
        ELSE enemyLogic(moveBullets(playerShoot(movePlayer(g1, k), k)),
                        shooters, seed)

updateNoStateGuard(g, k, dt, shooters, seed) ==
    IF g.state = "COUNTDOWN" THEN countdownStep(g, dt)
    ELSE enemyLogic(moveBullets(playerShoot(movePlayer(g, k), k)), shooters, seed)

update(g, k, dt, shooters, seed) ==
    IF g.state = "COUNTDOWN" THEN countdownStep(g, dt)
    ELSE IF g.state # "PLAYING" THEN g
    ELSE enemyLogic(moveBullets(playerShoot(movePlayer(g, k), k)), shooters, seed)

\* the states in which loop() requests another frame
Live(s) == s \in {"COUNTDOWN", "PLAYING"}

\* draw(): what one call paints of the engine it reads
draw(g) ==
    [player |-> IF Live(g.state) THEN <<g.player.x, g.player.y>> ELSE <<>>,
     enemies |-> {<<g.enemies[i].x, g.enemies[i].y>> : i \in Active(g.enemies)},
     bullets |-> [i \in 1..Len(g.bullets) |-> <<g.bullets[i].x, g.bullets[i].y>>],
     particles |-> Len(g.particles),
     countdown |-> IF g.state = "COUNTDOWN" THEN g.countdownValue ELSE 0]

DrawCall(g) == [g EXCEPT !.log.draw = Append(@, draw(g))]

\* loop(), up to its request for the next frame: update(dt), draw(), and a
\* second draw() when the state is terminal
loop(g, k, dt, shooters, seed) ==
    LET g1 == DrawCall(update(g, k, dt, shooters, seed))
    IN  IF g1.state \in {"GAME_OVER", "VICTORY"} THEN DrawCall(g1) ELSE g1

\* requestAnimationFrame(this.loop), called by loop() in the live states
requestAnimationFrame(n, s) == IF Live(s) THEN n + 1 ELSE n

----------------------------------------------------------------------------
(* The engine as a state machine *)

Engine ==
    [state |-> state, width |-> width, height |-> height, player |-> player,
     enemies |-> enemies, bullets |-> bullets, particles |-> particles,
     score |-> score, enemyDirection |-> enemyDirection,
     enemySpeed |-> enemySpeed, difficulty |-> difficulty,
     countdownValue |-> countdownValue, countdownTimer |-> countdownTimer,
     log |-> NoCalls, mid |-> NoMid]

\* the engine's fields take the values of g; the callbacks it made reach React
Becomes(g) ==
    /\ state' = g.state
    /\ width' = g.width
    /\ height' = g.height
    /\ player' = g.player
    /\ enemies' = g.enemies
    /\ bullets' = g.bullets
    /\ score' = g.score
    /\ enemyDirection' = g.enemyDirection
    /\ enemySpeed' = g.enemySpeed
    /\ difficulty' = g.difficulty
    /\ countdownValue' = g.countdownValue
    /\ countdownTimer' = g.countdownTimer
    /\ log' = g.log
    /\ mid' = g.mid
    /\ uiScore' = IF g.log.score = <<>> THEN uiScore
                  ELSE g.log.score[Len(g.log.score)]

\* what is spent of the exploration budgets
Spent ==
    used.keys + used.shots + used.starts + used.resizes + used.resets
        + used.cleanups

\* window.addEventListener and window.removeEventListener on the set of
\* registered listeners; fn is the identity of the function object passed
addEventListener(ls, type, fn) == ls \cup {[type |-> type, fn |-> fn]}
removeEventListener(ls, type, fn) == ls \ {[type |-> type, fn |-> fn]}

\* bindEvents(): its two arrow functions are new function objects
bindEvents(ls) ==
    addEventListener(addEventListener(ls, "keydown", "bindEvents.keydown"),
                     "keyup", "bindEvents.keyup")

\* the listeners of the given event type
Listening(type) == {l \in listeners : l.type = type}

\* the state after new GameEngine(canvas, ...) on a canvas of w by h pixels
Constructed(w, h) ==
    /\ state = "START"
    /\ width = w * PX
    /\ height = h * PX
    /\ player = [x |-> (w * PX) \div 2 - 20 * PX,
                 y |-> (h - playerBottomGap) * PX,
                 cooldown |-> 0]
    /\ enemies = <<>>
    /\ bullets = <<>>
    /\ particles = <<>>
    /\ score = 0
    /\ keys = {}
    /\ enemyDirection = 1
    /\ enemySpeed = 1 * PX
    /\ difficulty = "HARD"
    /\ countdownValue = 3
    /\ countdownTimer = 0
    /\ uiScore = 0
    /\ op = "new"
    /\ log = NoCalls
    /\ mid = NoMid
    /\ elapsed = 0
    /\ ticks = 0
    /\ lastShot = 0
    /\ pending = 0
    /\ listeners = bindEvents({})
    /\ used = [keys |-> 0, shots |-> 0, starts |-> 0, resizes |-> 0, resets |-> 0,
               cleanups |-> 0]
    /\ twin = Engine

Init == \E s \in Surfaces : Constructed(s[1], s[2])

\* resetEntities()
resetEntitiesKeepFormation(g) ==
    [g EXCEPT !.bullets = <<>>,
              !.particles = <<>>,
              !.enemies = Grid(g.width),
              !.player.x = g.width \div 2 - 20 * PX]

resetEntities(g) ==
    [g EXCEPT !.bullets = <<>>,
              !.particles = <<>>,
              !.enemies = Grid(g.width),
              !.player.x = g.width \div 2 - 20 * PX,
              !.enemySpeed = ENEMY_SPEED_BASE * PX,
              !.enemyDirection = 1]

\* start(d), with the loop() call that ends it: its update() sees the time
\* since lastFrameTime was set one statement earlier, here 0 ms
startNoScoreCall(g, k, d) ==
    LET g1 == [g EXCEPT !.difficulty = d,
                        !.state = "COUNTDOWN",
                        !.score = 0,
                        !.log = SoundCall(StateCall(g, "COUNTDOWN"), "resume")]
        g2 == [resetEntities(g1) EXCEPT !.countdownValue = countdownStart,
                                        !.countdownTimer = 0]
    IN  loop(g2, k, 0, {}, 0)

start(g, k, d) ==
    LET g1 == [g EXCEPT !.difficulty = d,
                        !.state = "COUNTDOWN",
                        !.score = 0,
                        !.log = ScoreCall(SoundCall(StateCall(g, "COUNTDOWN"),
                                                    "resume"), 0)]
        g2 == [resetEntities(g1) EXCEPT !.countdownValue = countdownStart,
                                        !.countdownTimer = 0]
    IN  loop(g2, k, 0, {}, 0)

Start(d) ==
    /\ Becomes(start(Engine, keys, d))
    /\ particles' = start(Engine, keys, d).particles
    /\ op' = "start"
    /\ elapsed' = 0
    /\ ticks' = 0
    /\ lastShot' = 0
    /\ pending' = requestAnimationFrame(pending, state')
    /\ used' = [used EXCEPT !.starts = @ + 1]
    /\ UNCHANGED <<keys, listeners>>

\* the particles after an update() call, each one call older
Aged(ps) == [i \in 1..Len(ps) |-> [ps[i] EXCEPT !.age = @ + 1]]

Fresh(ps) == \A i \in 1..Len(ps) : ps[i].age + ps[i].life < PARTICLE_LIFE + MaxStale

\* a requested frame arrives: loop() runs, dt ms after the frame before
Update(dt, shooters, seed) ==
    /\ pending > 0
    /\ Fresh(particles)
    /\ shooters \subseteq Active(enemies)
    /\ shooters # {} => state = "PLAYING"
    /\ LET g == loop(Engine, keys, dt, shooters, seed)
       IN  /\ Becomes(g)
           /\ particles' = Aged(g.particles)
    /\ pending' = requestAnimationFrame(pending - 1, state')
    /\ op' = "update"
    /\ elapsed' = IF state = "COUNTDOWN" THEN elapsed + dt ELSE 0
    /\ ticks' = IF state = "PLAYING" THEN ticks + 1 ELSE ticks
    /\ lastShot' = IF Count(log'.sound, "playShoot") > 0 THEN ticks' ELSE lastShot
    /\ used' = [used EXCEPT !.shots = @ + Cardinality(shooters)]
    /\ UNCHANGED <<keys, listeners>>

\* the keydown listener of bindEvents
KeyDown(c) ==
    /\ Listening("keydown") # {}
    /\ c \notin keys
    /\ keys' = keys \cup {c}
    /\ op' = "keydown"
    /\ log' = NoCalls
    /\ mid' = NoMid
    /\ used' = [used EXCEPT !.keys = @ + 1]
    /\ UNCHANGED <<state, width, height, player, enemies, bullets, particles,
                   score, enemyDirection, enemySpeed, difficulty, countdownValue,
                   countdownTimer, uiScore, elapsed, ticks, lastShot, pending,
                   listeners>>

\* the keyup listener of bindEvents
KeyUp(c) ==
    /\ Listening("keyup") # {}
    /\ c \in keys
    /\ keys' = keys \ {c}
    /\ op' = "keyup"
    /\ log' = NoCalls
    /\ mid' = NoMid
    /\ used' = [used EXCEPT !.keys = @ + 1]
    /\ UNCHANGED <<state, width, height, player, enemies, bullets, particles,
                   score, enemyDirection, enemySpeed, difficulty, countdownValue,
                   countdownTimer, uiScore, elapsed, ticks, lastShot, pending,
                   listeners>>

\* resize(w, h)
resize(g, w, h) ==
    [g EXCEPT !.width = w,
              !.height = h,
              !.player.x = IF @ > w THEN w - playerWidth * PX ELSE @,
              !.player.y = h - playerBottomGap * PX]

\* the page's resize handler: resize(), then draw() outside the live states
handleResize(g, w, h) ==
    LET g1 == resize(g, w, h)
    IN  IF Live(g1.state) THEN g1 ELSE DrawCall(g1)

Resize(w, h) ==
    /\ <<w * PX, h * PX>> # <<width, height>>
    /\ Becomes(handleResize(Engine, w * PX, h * PX))
    /\ op' = "resize"
    /\ used' = [used EXCEPT !.resizes = @ + 1]
    /\ UNCHANGED <<particles, keys, elapsed, ticks, lastShot, pending, listeners>>

\* resetToMenu()
resetToMenuAndScore(g) ==
    DrawCall([g EXCEPT !.state = "START", !.bullets = <<>>, !.particles = <<>>,
                       !.enemies = <<>>, !.score = 0,
                       !.log = ScoreCall(@, 0)])

resetToMenu(g) ==
    DrawCall([g EXCEPT !.state = "START", !.bullets = <<>>, !.particles = <<>>,
                       !.enemies = <<>>])

ResetToMenu ==
    /\ Becomes(resetToMenu(Engine))
    /\ particles' = <<>>
    /\ op' = "resetToMenu"
    /\ used' = [used EXCEPT !.resets = @ + 1]
    /\ UNCHANGED <<keys, elapsed, ticks, lastShot, pending, listeners>>

\* cleanup(): the two arrow functions it passes are new function objects
cleanup(ls) ==
    removeEventListener(removeEventListener(ls, "keydown", "cleanup.keydown"),
                        "keyup", "cleanup.keyup")

Cleanup ==
    /\ listeners' = cleanup(listeners)
    /\ op' = "cleanup"
    /\ log' = NoCalls
    /\ mid' = NoMid
    /\ used' = [used EXCEPT !.cleanups = @ + 1]
    /\ UNCHANGED <<state, width, height, player, enemies, bullets, particles,
                   score, keys, enemyDirection, enemySpeed, difficulty,
                   countdownValue, countdownTimer, uiScore, elapsed, ticks,
                   lastShot, pending>>

----------------------------------------------------------------------------
(* Spec: every operation, in any order, within the budgets *)

Budget(kind, max) == used[kind] < max /\ Spent < MaxEvents

\* the frame periods explored: both outside PLAYING, one in PLAYING, whose
\* branch of update() does not read dt; enemies fire in PLAYING only
DtChoices == IF state = "PLAYING" THEN {CHOOSE dt \in DtSet : TRUE} ELSE DtSet

ShooterChoices ==
    IF state = "PLAYING" /\ Budget("shots", MaxEnemyShots)
    THEN {{}} \cup {{i} : i \in Shooters \cap Active(enemies)}
    ELSE {{}}

DoStart ==
    \E d \in Tiers : Budget("starts", MaxStarts) /\ Start(d) /\ UNCHANGED twin

DoUpdate ==
    \E dt \in DtChoices, sh \in ShooterChoices, seed \in Seeds :
        /\ state = "PLAYING" => ticks < MaxTicks
        /\ Update(dt, sh, seed)
        /\ UNCHANGED twin

DoKeyDown ==
    \E c \in KeyCodes : Budget("keys", MaxKeyEvents) /\ KeyDown(c) /\ UNCHANGED twin

DoKeyUp ==
    \E c \in KeyCodes : Budget("keys", MaxKeyEvents) /\ KeyUp(c) /\ UNCHANGED twin

DoResize ==
    \E s \in Resized :
        Budget("resizes", MaxResizes) /\ Resize(s[1], s[2]) /\ UNCHANGED twin

DoResetToMenu == Budget("resets", MaxResets) /\ ResetToMenu /\ UNCHANGED twin

\* the component calls cleanup() once, when it unmounts
DoCleanup == used.cleanups = 0 /\ Spent < MaxEvents /\ Cleanup /\ UNCHANGED twin

Next ==
    \/ DoStart
    \/ DoUpdate
    \/ DoKeyDown
    \/ DoKeyUp
    \/ DoResize
    \/ DoResetToMenu
    \/ DoCleanup

Spec == Init /\ [][Next]_vars

----------------------------------------------------------------------------
(* SpecLong: one session on the largest surface the page gives the engine,  *)
(* played by holding Space from the menu on, with no enemy fire, until one  *)
(* enemy is left; from there one more key event or enemy shot is explored.  *)

MaxLongTicks == 965   \* PLAYING updates explored
MaxLongEvents == 3    \* start(), the Space keydown and what follows them
EndgameLiving == 1    \* enemies left when the exploration widens

InitLong == Constructed(800, 600)

Endgame == state = "PLAYING" /\ Cardinality(Active(enemies)) <= EndgameLiving

LongKeyDown ==
    \E c \in KeyCodes :
        /\ Spent < MaxLongEvents
        /\ IF state = "START" THEN c = "Space" ELSE Endgame
        /\ KeyDown(c)
        /\ UNCHANGED twin

LongKeyUp ==
    \E c \in KeyCodes :
        Spent < MaxLongEvents /\ Endgame /\ KeyUp(c) /\ UNCHANGED twin

\* start() from the menu, and possibly once more before the first frame
LongStart ==
    /\ \/ state = "START" /\ "Space" \in keys
       \/ state = "COUNTDOWN" /\ elapsed = 0 /\ pending = 1
    /\ Start("HARD")
    /\ UNCHANGED twin

LongUpdate ==
    \E sh \in IF Endgame /\ Spent < MaxLongEvents
              THEN {{}} \cup {{i} : i \in Active(enemies)} ELSE {{}} :
        /\ state = "PLAYING" => ticks < MaxLongTicks
        /\ Update(countdownPeriod, sh, 0)
        /\ UNCHANGED twin

NextLong ==
    \/ LongStart
    \/ LongKeyDown
    \/ LongKeyUp
    \/ LongUpdate

SpecLong == InitLong /\ [][NextLong]_vars

----------------------------------------------------------------------------
(* SpecTier: one session of each tier start() can be given, on the small    *)
(* surfaces, with enemy fire from the first PLAYING update on.              *)

MaxTierTicks == 4     \* PLAYING updates explored
MaxTierShots == 2     \* enemy bullets fired
MaxTierKeys == 1      \* keydown events

\* the tiers start() is given: the three of the enum and a value outside it
TierValues == Difficulty \cup {"NIGHTMARE"}

TierStart ==
    \E d \in TierValues : state = "START" /\ Start(d) /\ UNCHANGED twin

TierKeyDown ==
    \E c \in KeyCodes : used.keys < MaxTierKeys /\ KeyDown(c) /\ UNCHANGED twin

TierUpdate ==
    \E sh \in IF state = "PLAYING" /\ used.shots < MaxTierShots
               THEN {{}} \cup {{i} : i \in Shooters \cap Active(enemies)}
               ELSE {{}},
       seed \in Seeds :
        /\ state = "PLAYING" => ticks < MaxTierTicks
        /\ Update(countdownPeriod, sh, seed)
        /\ UNCHANGED twin

NextTier ==
    \/ TierStart
    \/ TierKeyDown
    \/ TierUpdate

SpecTier == Init /\ [][NextTier]_vars

----------------------------------------------------------------------------
(* SpecFire: one session on a narrow, tall surface, long enough for the     *)
(* player to fire more than once, with the fire keys pressed and released   *)
(* between any two frames and no enemy fire.                                *)

MaxFireTicks == 20    \* PLAYING updates explored
MaxFireKeys == 3      \* keydown / keyup events

FireKeys == {"Space", "KeyW"}

InitFire == Constructed(366, 620)

FireStart == state = "START" /\ Start("HARD") /\ UNCHANGED twin

FireKeyDown ==
    \E c \in FireKeys : used.keys < MaxFireKeys /\ KeyDown(c) /\ UNCHANGED twin

FireKeyUp ==
    \E c \in FireKeys : used.keys < MaxFireKeys /\ KeyUp(c) /\ UNCHANGED twin

FireUpdate ==
    /\ state = "PLAYING" => ticks < MaxFireTicks
    /\ Update(countdownPeriod, {}, 0)
    /\ UNCHANGED twin

NextFire ==
    \/ FireStart
    \/ FireKeyDown
    \/ FireKeyUp
    \/ FireUpdate

SpecFire == InitFire /\ [][NextFire]_vars

----------------------------------------------------------------------------
(* SpecRate: two engines built on the same surface get the same start()    *)
(* and see the same keys held; the first runs one loop cycle per frame     *)
(* period dt, the twin two cycles of dt / 2 each in the same time.         *)

MaxRateTicks == 4     \* PLAYING updates of the first engine explored
MaxRateKeys == 2      \* keydown / keyup events

\* frame periods in ms: 16 and 32 while PLAYING, a second in the countdown
RateDt == IF state = "COUNTDOWN" THEN {countdownPeriod} ELSE {16, 32}

\* the twin as its next call finds it
Twin == [twin EXCEPT !.log = NoCalls, !.mid = NoMid]

RateStart ==
    /\ state = "START"
    /\ Start("HARD")
    /\ twin' = start(Twin, keys, "HARD")

RateFrame ==
    \E dt \in RateDt :
        /\ state = "PLAYING" => ticks < MaxRateTicks
        /\ Update(dt, {}, 0)
        /\ twin' = LET half == loop(Twin, keys, dt \div 2, {}, 0)
                   IN  loop([half EXCEPT !.log = NoCalls, !.mid = NoMid],
                            keys, dt \div 2, {}, 0)

RateKeyDown ==
    \E c \in KeyCodes : used.keys < MaxRateKeys /\ KeyDown(c) /\ UNCHANGED twin

RateKeyUp ==
    \E c \in KeyCodes : used.keys < MaxRateKeys /\ KeyUp(c) /\ UNCHANGED twin

NextRate ==
    \/ RateStart
    \/ RateFrame
    \/ RateKeyDown
    \/ RateKeyUp

SpecRate == Init /\ [][NextRate]_vars

----------------------------------------------------------------------------
(* Claims *)

\* C1: after every update() call made while PLAYING, whatever keys are held,
\* the player's x lies in [0, surfaceWidth - playerWidth].
C1_PlayerInField ==
    [][state = "PLAYING" /\ op' = "update"
        => 0 <= player'.x /\ player'.x <= width' - playerWidth * PX]_vars

\* the first PLAYING update moved the player left from x = 3 and clamped it
C1_Witness ==
    /\ op = "update" /\ state = "PLAYING" /\ ticks = 1
    /\ width = 46 * PX
    /\ Left(keys) /\ ~Right(keys)
    /\ player.x = 0

\* C2: inside a session the enemy collection keeps its rows x cols entries,
\* and update() only ever clears active flags.
C2_EnemiesFixed ==
    /\ [](state # "START" => Len(enemies) = rows * cols)
    /\ [][op' = "update"
           => /\ Len(enemies') = Len(enemies)
              /\ \A i \in 1..Len(enemies) :
                    /\ enemies'[i].active => enemies[i].active
                    /\ enemies'[i].row = enemies[i].row
                    /\ enemies'[i].col = enemies[i].col]_vars

\* an update() has just deactivated an enemy, which is still in the collection
C2_Witness ==
    /\ op = "update" /\ mid.ran
    /\ Len(enemies) = rows * cols
    /\ \E i \in 1..Len(enemies) : mid.pre.enemies[i].active /\ ~enemies[i].active

EnemyBullets(bs) == {i \in 1..Len(bs) : ~bs[i].isPlayerBullet}

\* C3: an update() called while PLAYING with no active enemy sets VICTORY,
\* tells the state callback once, and returns before the enemy, collision and
\* particle steps: no enemy bullet is added, nothing is scored or exploded,
\* and no particle decays.
C3_VictoryShortCircuit ==
    [][state = "PLAYING" /\ op' = "update" /\ Active(enemies) = {}
        => /\ state' = "VICTORY"
           /\ log'.state = <<"VICTORY">>
           /\ log'.score = <<>>
           /\ \A j \in 1..Len(log'.sound) : log'.sound[j] # "playExplosion"
           /\ ~mid'.ran
           /\ enemies' = enemies
           /\ enemyDirection' = enemyDirection /\ enemySpeed' = enemySpeed
           /\ score' = score
           /\ Cardinality(EnemyBullets(bullets')) = Cardinality(EnemyBullets(bullets))
           /\ particles' = Aged(particles)]_vars

\* the update() after the last kill has declared the victory, with the last
\* burst of particles still in the collection
C3_Witness ==
    /\ op = "update" /\ state = "VICTORY"
    /\ Len(enemies) = rows * cols /\ Active(enemies) = {}
    /\ log.state = <<"VICTORY">>
    /\ particles # <<>>

\* the active player bullets of snapshot m, and the active enemies each overlaps
PlayerBullets(m) == {bi \in Active(m.bullets) : m.bullets[bi].isPlayerBullet}

Touches(m, bi, ei) ==
    Overlap(m.bullets[bi].x, m.bullets[bi].y, bulletWidth * PX, bulletHeight * PX,
            m.enemies[ei].x, m.enemies[ei].y, enemyWidth * PX, enemyHeight * PX)

Hits(m) ==
    {h \in PlayerBullets(m) \X Active(m.enemies) : Touches(m, h[1], h[2])}

\* the particles the collision step added, and those of them placed at (x, y)
Added(pre, post) == (Len(pre.particles) + 1)..Len(post.particles)

AddedAt(pre, post, x, y) ==
    {i \in Added(pre, post) : post.particles[i].x = x /\ post.particles[i].y = y}

\* the enemy bullets of snapshot m that overlap the player
PlayerHits(m) ==
    {bi \in Active(m.bullets) :
        /\ ~m.bullets[bi].isPlayerBullet
        /\ Overlap(m.bullets[bi].x, m.bullets[bi].y, bulletWidth * PX, bulletHeight * PX,
                   m.player.x, m.player.y, playerWidth * PX, playerHeight * PX)}

C5_PlayerHit ==
    /\ []((op = "update" /\ mid.ran /\ PlayerHits(mid.pre) # {})
            => /\ state = "GAME_OVER"
               /\ mid.post.state = "GAME_OVER"
               /\ \A bi \in PlayerHits(mid.pre) : ~mid.post.bullets[bi].active
               /\ Cardinality(AddedAt(mid.pre, mid.post,
                                      mid.pre.player.x + (playerWidth * PX) \div 2,
                                      mid.pre.player.y + (playerHeight * PX) \div 2))
                    = playerBurst * Cardinality(PlayerHits(mid.pre)))
    /\ [][state = "GAME_OVER" /\ op' = "update" => state' = "GAME_OVER"]_vars

\* an enemy bullet ended the game and a later update() call left it ended
C5_Witness ==
    /\ op = "update" /\ ~mid.ran /\ state = "GAME_OVER"
    /\ used.shots = 1
    /\ Cardinality({i \in 1..Len(particles) : particles[i].age = 2}) >= playerBurst

\* C6: after start() the counter is 3 and the state COUNTDOWN; the counter
\* has dropped once per full 1000 ms handed to update(), and the state is
\* PLAYING as soon as 3000 ms have been handed over, however divided.
C6_CountdownByElapsed ==
    /\ op = "start" => state = "COUNTDOWN" /\ countdownValue = countdownStart
    /\ state = "COUNTDOWN"
         => /\ elapsed < countdownStart * countdownPeriod
            /\ countdownValue = countdownStart - elapsed \div countdownPeriod

\* the enemies that touch a wall they move toward, once moved horizontally
AtWall ==
    {i \in Active(enemies) :
        LET x == enemies[i].x + enemySpeed * enemyDirection
        IN  \/ (x <= 0 /\ enemyDirection = -1)
            \/ (x + enemyWidth * PX >= width /\ enemyDirection = 1)}

\* C7: a PLAYING update in which a living enemy touches the wall it moves
\* toward negates the direction once, lowers every enemy that was active at
\* the start of the update by 20 and raises enemySpeed by 0.2, however many
\* enemies touch; any other update leaves direction, speed and every y alone.
C7_WallBounce ==
    [][state = "PLAYING" /\ op' = "update" /\ Active(enemies) # {}
        => IF AtWall # {}
           THEN /\ enemyDirection' = -enemyDirection
                /\ enemySpeed' = enemySpeed + PX \div 5
                /\ \A i \in 1..Len(enemies) :
                      enemies'[i].y = IF enemies[i].active
                                      THEN enemies[i].y + ENEMY_DROP * PX
                                      ELSE enemies[i].y
           ELSE /\ enemyDirection' = enemyDirection
                /\ enemySpeed' = enemySpeed
                /\ \A i \in 1..Len(enemies) : enemies'[i].y = enemies[i].y]_vars

\* the formation has bounced off the right wall and then off the left one,
\* several enemies touching each time, with one enemy already destroyed
C7_Witness ==
    /\ op = "update" /\ mid.ran
    /\ enemyDirection = 1
    /\ enemySpeed = ENEMY_SPEED_BASE * PX + 2 * (PX \div 5)
    /\ \E i \in 1..Len(enemies) : ~mid.pre.enemies[i].active
    /\ \A i \in Active(mid.pre.enemies) :
          enemies[i].y = (gridTop + enemies[i].row * (enemyHeight + padding)
                            + 2 * ENEMY_DROP) * PX

\* C8: every update() call after a particle's spawn uses up one of its 45
\* ticks of life, so a particle that has seen n calls has at most 45 - n
\* left and is out of the collection after at most 45 calls.
C8_ParticlesExpire ==
    \A i \in 1..Len(particles) :
        /\ particles[i].life >= 1
        /\ particles[i].age + particles[i].life <= PARTICLE_LIFE

\* C9: start() and update() call the state callback exactly once, with the
\* new state, when they make a transition (start()'s set to COUNTDOWN
\* included) and not at all when the state stays as it was.
C9_OneStateCall ==
    [][op' \in {"start", "update"}
        => log'.state = IF op' = "start" \/ state' # state THEN <<state'>> ELSE <<>>]_vars

\* the enemies an update() step deactivates
Killed == {i \in Active(enemies) : ~enemies'[i].active}

\* C10: the score changes only in start(), to 0, and in update(), by +100 per
\* enemy destroyed; each change is reported to the score callback in the same
\* operation, so React's score always equals the engine's.
C10_ScoreReported ==
    /\ [](uiScore = score)
    /\ [][CASE op' = "start" ->
                  score' = 0 /\ log'.score = <<0>>
            [] op' = "update" ->
                  /\ score' = score + killScore * Cardinality(Killed)
                  /\ log'.score = [j \in 1..Cardinality(Killed) |-> score + killScore * j]
            [] OTHER ->
                  score' = score /\ log'.score = <<>>]_vars

\* in a second session an update() has destroyed an enemy and reported 100
C10_Witness ==
    /\ op = "update" /\ used.starts = 2
    /\ Cardinality(Active(enemies)) = rows * cols - 1
    /\ score = killScore /\ uiScore = killScore /\ log.score = <<killScore>>

\* C11: once cleanup() has returned, no listener of the engine is registered
\* on the window and no keydown or keyup event changes the key-state map.
C11_CleanupDeregisters ==
    used.cleanups > 0 => listeners = {} /\ op \notin {"keydown", "keyup"}

\* what draw() would paint of the engine as the step leaves it
PaintedAfter ==
    draw([state |-> state', player |-> player', enemies |-> enemies',
          bullets |-> bullets', particles |-> particles',
          countdownValue |-> countdownValue'])

\* C12: a loop cycle draws what its completed update() left, and requests
\* the next frame exactly when that state is COUNTDOWN or PLAYING; once a
\* cycle has ended in GAME_OVER or VICTORY no frame is pending and update()
\* does not run again before the next start().
C12_LoopStopsAtTerminal ==
    /\ [][op' = "update"
           => /\ log'.draw # <<>>
              /\ log'.draw[1] = PaintedAfter
              /\ pending' = IF Live(state') THEN pending ELSE pending - 1]_vars
    /\ [](state \in {"GAME_OVER", "VICTORY"} => pending = 0)
    /\ [][(state = "GAME_OVER" \/ state = "VICTORY") => op' # "update"]_vars

\* C13: start(), whatever the state it is called in, leaves COUNTDOWN, score
\* 0, no bullet and no particle, the 32 enemies active in the centred 4 x 8
\* grid, enemySpeed 1, enemyDirection +1, countdownValue 3, countdownTimer 0,
\* and has called the state callback with COUNTDOWN and the score callback
\* with 0.
C13_StartResets ==
    op = "start" =>
        /\ state = "COUNTDOWN" /\ score = 0
        /\ bullets = <<>> /\ particles = <<>>
        /\ Len(enemies) = rows * cols
        /\ \A i \in 1..Len(enemies) :
              /\ enemies[i].active
              /\ enemies[i].row = (i - 1) \div cols
              /\ enemies[i].col = (i - 1) % cols
              /\ enemies[i].x = enemies[1].x
                                  + enemies[i].col * (enemyWidth + padding) * PX
              /\ enemies[i].y = (gridTop + enemies[i].row * (enemyHeight + padding)) * PX
        /\ 2 * enemies[1].x + cols * (enemyWidth + padding) * PX = width
        /\ enemySpeed = ENEMY_SPEED_BASE * PX /\ enemyDirection = 1
        /\ countdownValue = countdownStart /\ countdownTimer = 0
        /\ log.state = <<"COUNTDOWN">> /\ log.score = <<0>>
        /\ uiScore = 0

\* a second start(), called while the shot of the session before is still
\* cooling down
C13_Witness ==
    /\ op = "start" /\ used.starts = 2
    /\ player.cooldown > 0
    /\ state = "COUNTDOWN" /\ Len(enemies) = rows * cols

\* C14: on a surface at least as wide as the player, the player lies inside
\* the field horizontally at all times, also right after resize(); and
\* resize() leaves the player's y at height - 60.
C14_ResizeKeepsPlayerInField ==
    /\ width >= playerWidth * PX
          => 0 <= player.x /\ player.x <= width - playerWidth * PX
    /\ op = "resize" => player.y = height - playerBottomGap * PX

\* where a sequence of entities is
Places(seq) == [i \in 1..Len(seq) |-> <<seq[i].x, seq[i].y>>]

\* C15: over the same elapsed time and with the same keys held, the player,
\* the enemy formation and the bullets are in the same places whether the
\* time came as N frames or as 2N frames of half the length.
C15_FrameRateIndependent ==
    /\ player.x = twin.player.x
    /\ Places(enemies) = Places(twin.enemies)
    /\ Places(bullets) = Places(twin.bullets)

\* C16: resetToMenu(), in whatever state, sets START and empties the bullet,
\* particle and enemy collections; it runs no simulation step, leaves the
\* score, the player, enemySpeed, enemyDirection and the countdown fields as
\* they were and calls neither the score callback nor the state callback.
C16_ResetToMenuFrame ==
    [][op' = "resetToMenu"
        => /\ state' = "START"
           /\ bullets' = <<>> /\ particles' = <<>> /\ enemies' = <<>>
           /\ score' = score /\ uiScore' = uiScore
           /\ player' = player
           /\ enemySpeed' = enemySpeed /\ enemyDirection' = enemyDirection
           /\ countdownValue' = countdownValue
           /\ countdownTimer' = countdownTimer
           /\ ~mid'.ran /\ ticks' = ticks
           /\ log'.state = <<>> /\ log'.score = <<>> /\ log'.sound = <<>>]_vars

\* resetToMenu() called in mid-play, after a kill and with the formation
\* already sped up by a wall bounce
C16_Witness ==
    /\ op = "resetToMenu" /\ state = "START"
    /\ score = killScore /\ player.cooldown > 0
    /\ enemySpeed > ENEMY_SPEED_BASE * PX
    /\ enemies = <<>> /\ bullets = <<>> /\ particles = <<>>

\* C17: the multipliers are (1/3, 1/3) for EASY, (2/3, 2/3) for MEDIUM and
\* (1, 1) for HARD and for any other value, and every enemy bullet of a
\* session falls at BULLET_SPEED / 1.5 times the speed multiplier of the tier
\* given to start().
C17_DifficultyScalesEnemyFire ==
    LET m == getDifficultyMultipliers(difficulty)
        third == (2 * BULLET_SPEED * PX) \div 9
    IN  /\ m.speed = m.freq
        /\ m.speed = CASE difficulty = "EASY" -> <<1, 3>>
                        [] difficulty = "MEDIUM" -> <<2, 3>>
                        [] difficulty = "HARD" -> <<1, 1>>
                        [] OTHER -> <<1, 1>>
        /\ \A i \in EnemyBullets(bullets) :
              bullets[i].dy = CASE difficulty = "EASY" -> third
                                [] difficulty = "MEDIUM" -> 2 * third
                                [] OTHER -> 3 * third

\* an enemy bullet in flight in a MEDIUM session
C17_Witness ==
    /\ difficulty = "MEDIUM" /\ state = "PLAYING"
    /\ \E i \in EnemyBullets(bullets) :
          bullets[i].active /\ 9 * bullets[i].dy = 4 * BULLET_SPEED * PX

\* C18: an update() called in START, GAME_OVER or VICTORY, whatever dt and
\* whatever keys are held, changes nothing of the engine and calls neither
\* callback nor the sound manager.
C18_IdleUpdateNoOp ==
    [][(state = "START" \/ state = "GAME_OVER" \/ state = "VICTORY")
         /\ op' = "update"
        => /\ state' = state /\ score' = score /\ uiScore' = uiScore
           /\ player' = player /\ enemies' = enemies /\ bullets' = bullets
           /\ particles' = Aged(particles)
           /\ enemySpeed' = enemySpeed /\ enemyDirection' = enemyDirection
           /\ countdownValue' = countdownValue
           /\ countdownTimer' = countdownTimer
           /\ ~mid'.ran
           /\ log'.state = <<>> /\ log'.score = <<>> /\ log'.sound = <<>>]_vars

\* with a fire key held, a frame has arrived after the game was lost and its
\* update() has left the enemies and the particles of a kill as they were
C18_Witness ==
    /\ op = "update" /\ state = "GAME_OVER" /\ ~mid.ran
    /\ Fire(keys)
    /\ log.state = <<>> /\ log.sound = <<>>
    /\ Active(enemies) # {} /\ particles # <<>>

\* C19: an update() called in COUNTDOWN, whatever dt and whatever keys are
\* held, changes at most countdownTimer, countdownValue and the state (to
\* PLAYING, when the counter reaches 0): the player, the enemies, the
\* bullets, the particles, the score, enemySpeed and enemyDirection stay.
C19_CountdownFrame ==
    [][state = "COUNTDOWN" /\ op' = "update"
        => /\ player' = player /\ enemies' = enemies /\ bullets' = bullets
           /\ particles' = Aged(particles)
           /\ score' = score /\ uiScore' = uiScore
           /\ enemySpeed' = enemySpeed /\ enemyDirection' = enemyDirection
           /\ ~mid'.ran
           /\ log'.score = <<>> /\ log'.sound = <<>>
           /\ IF countdownValue' <= 0 /\ countdownValue' # countdownValue
              THEN state' = "PLAYING"
              ELSE state' = "COUNTDOWN"]_vars

\* the countdown has just ended with a fire key and a move key held: nothing
\* was fired and the player is where start() put it
C19_Witness ==
    /\ op = "update" /\ state = "PLAYING" /\ ticks = 0
    /\ Fire(keys) /\ Left(keys)
    /\ bullets = <<>> /\ player.cooldown = 0
    /\ player.x = width \div 2 - 20 * PX
    /\ enemies[1].x = (width - cols * (enemyWidth + padding) * PX) \div 2

\* the active enemies whose bottom edge is at or below the player's y
AtPlayerLine == {i \in Active(enemies) : enemies[i].y + enemyHeight * PX >= player.y}

\* C20: an update() that begins in PLAYING with an active enemy whose bottom
\* edge is at or below the player's y ends in GAME_OVER, wherever that enemy
\* is horizontally and whatever the bullets hit in that update.
C20_ContactEndsGame ==
    [][state = "PLAYING" /\ op' = "update" /\ AtPlayerLine # {}
        => state' = "GAME_OVER"]_vars

\* the game was lost by contact, with no enemy bullet on the player, in an
\* update in which a player bullet also destroyed an enemy; an enemy of the
\* bottom row that is not over the player was among those at the line
C20_Witness ==
    /\ op = "update" /\ mid.ran /\ state = "GAME_OVER"
    /\ PlayerHits(mid.pre) = {} /\ Hits(mid.pre) # {}
    /\ \E i \in Active(mid.pre.enemies) :
          /\ mid.pre.enemies[i].row = rows - 1
          /\ \/ mid.pre.enemies[i].x + enemyWidth * PX < player.x
             \/ mid.pre.enemies[i].x > player.x + playerWidth * PX

\* the player bullets among bs, active or not
OfPlayer(bs) == {i \in 1..Len(bs) : bs[i].isPlayerBullet}

\* C21: a PLAYING update spawns at most one player bullet, and spawns one
\* only with a fire key held and the cooldown, once decremented, at 0 or
\* less; the cooldown is then 15, and the spawn comes at least 15 PLAYING
\* updates after the one before it in the session.
C21_FireRate ==
    [][state = "PLAYING" /\ op' = "update"
        => LET spawned == Count(log'.sound, "playShoot")
               cd == IF player.cooldown > 0 THEN player.cooldown - 1
                                            ELSE player.cooldown
           IN  /\ spawned <= 1
               /\ mid'.ran => Cardinality(OfPlayer(mid'.pre.bullets))
                                 = Cardinality(OfPlayer(bullets)) + spawned
               /\ spawned = 1 =>
                     /\ Fire(keys) /\ cd <= 0
                     /\ player'.cooldown = shotCooldown
                     /\ lastShot = 0 \/ ticks' - lastShot >= shotCooldown
               /\ spawned = 0 => player'.cooldown = cd]_vars

\* a bullet has just been spawned, after an earlier one of the session and
\* after the fire key was released and pressed again
C21_Witness ==
    /\ op = "update" /\ state = "PLAYING"
    /\ lastShot = ticks /\ ticks > shotCooldown
    /\ Count(log.sound, "playShoot") = 1
    /\ used.keys = MaxFireKeys /\ Fire(keys)

\* C22: whenever the state is PLAYING, and so at the start of every update()
\* that runs the PLAYING logic, every bullet and every particle in the
\* collections is active: the ones the update before deactivated (bullets
\* past the top or bottom edge or spent in a hit, particles that expired)
\* are gone, and exactly the bullets still active were kept.
C22_OnlyActiveAtUpdate ==
    /\ state = "PLAYING" =>
          /\ \A i \in 1..Len(bullets) : bullets[i].active
          /\ \A i \in 1..Len(particles) : particles[i].active
    /\ (state = "PLAYING" /\ op = "update" /\ mid.ran) =>
          /\ Len(bullets) = Cardinality(Active(mid.post.bullets))
          /\ Len(particles) <= Len(mid.post.particles)

\* a PLAYING update in which a bullet left the surface through the top edge
\* and a particle expired
C22_Witness ==
    /\ op = "update" /\ state = "PLAYING" /\ mid.ran
    /\ \E i \in 1..Len(mid.post.bullets) :
          ~mid.post.bullets[i].active /\ mid.post.bullets[i].y < 0
    /\ Len(particles) < Len(mid.post.particles)
    /\ bullets # <<>> /\ particles # <<>>

\* C23: at most one next-frame callback of the engine is pending at any
\* time, whatever the order of start(), resetToMenu(), resize() and frames.
C23_OneFramePending == pending <= 1

\* C24: from start() on, the score is 100 times the number of inactive
\* enemies in the collection; so in VICTORY all 32 enemies are inactive and
\* the score is 3200.
C24_ScoreCountsKills ==
    /\ state # "START" =>
          /\ Len(enemies) = rows * cols
          /\ score = killScore * (Len(enemies) - Cardinality(Active(enemies)))
    /\ state = "VICTORY" =>
          /\ Active(enemies) = {}
          /\ score = 3200

\* the session has been won
C24_Witness ==
    /\ op = "update" /\ state = "VICTORY"
    /\ Len(enemies) = 32 /\ Active(enemies) = {}
    /\ log.state = <<"VICTORY">>

\* C25: once GAME_OVER is set and reported, the score stays as it is and
\* the score callback is not called until the next start(): neither in the
\* rest of the update that set GAME_OVER (the collision step that follows
\* the enemy loop) nor in any later step.
C25_NoPointsAfterGameOver ==
    /\ []((op = "update" /\ mid.ran /\ mid.pre.state = "GAME_OVER")
            => /\ score = mid.pre.score
               /\ Active(enemies) = Active(mid.pre.enemies)
               /\ Len(log.score) = Len(mid.pre.log.score))
    /\ [][(state = "GAME_OVER" /\ op' # "start")
            => score' = score /\ log'.score = <<>>]_vars

====
